---------------------------- MODULE Spec2Model ----------------------------
(***************************************************************************)
(* SMPSO (speed-constrained multi-objective particle swarm optimisation)   *)
(* as implemented by jmetal/algorithm/multiobjective/smpso.py.             *)
(*                                                                         *)
(* Real numbers are fixed-point integers with two decimals (Scale units    *)
(* make 1.0).  Decision variables are Python floats; the model draws them  *)
(* from the grid 0.0, 1.0, ..., MaxX.0 of the box [lower_bound,            *)
(* upper_bound].                                                           *)
(*                                                                         *)
(* A Python exception is a value of the variable raised.  Three            *)
(* specifications share the actions:                                       *)
(*   RunSpec  the template run(): an exception ends the run (pc Crashed);  *)
(*   Spec     a driver that calls the same steps in the same order but     *)
(*            catches the exception of a step and goes on, so that every   *)
(*            operation is exercised on the states its predecessors leave; *)
(*   FnSpec   calls of the two pure helpers on enumerated arguments.       *)
(***************************************************************************)
EXTENDS Integers, Sequences, FiniteSets

VARIABLES mode, pc, last, raised, result, call,
          swarm_size, max_evaluations, leader_archive_size,
          swarm, local_best, speed, leaders, density, evaluations,
          leader_ref, best_ref, evaluated, density_fresh, score_reads

vars == <<mode, pc, last, raised, result, call,
          swarm_size, max_evaluations, leader_archive_size,
          swarm, local_best, speed, leaders, density, evaluations,
          leader_ref, best_ref, evaluated, density_fresh, score_reads>>

(* Object identity.  leader_ref[m] is the index of the swarm particle that
   archive member m is the same Python object as, and 0 when the member is an
   object of its own; best_ref[i] likewise for local_best[i].  evaluated
   counts the objective evaluations performed. *)
refs == <<leader_ref, best_ref>>

(* The state of the archive's scores.  density_fresh holds when
   compute_density_estimator has run since the last change of the archive's
   membership.  score_reads.n counts the evictions, each a read of the scores,
   made by the adds of the last operation that added to the archive, and
   score_reads.stale holds once one of them read scores that were not fresh. *)
scoring == <<density_fresh, score_reads>>

config == <<mode, swarm_size, max_evaluations, leader_archive_size>>

-----------------------------------------------------------------------------
(* Bounds of the model *)

MaxX == 3
MaxSwarm == 2
MaxArchive == 2
MaxEvals == 3

(* Fixed point: 1.0 is Scale *)
Scale == 10 * 10

(* The problem instance: one decision variable, two objectives *)
NumVars == 1
NumObjectives == 2

Vars == 1..NumVars

lower_bound == [j \in Vars |-> 0]
upper_bound == [j \in Vars |-> MaxX * Scale]

GridValues == {x * Scale : x \in 0..MaxX}
Positions == [Vars -> GridValues]

(* Python values that may be None: a float, a list, or None *)
NoneValue == [kind |-> "None", value |-> 0]
Float(x) == [kind |-> "float", value |-> x]
List(l) == [kind |-> "list", value |-> l]

-----------------------------------------------------------------------------
(* Collaborators outside smpso.py *)

RECURSIVE SumTo(_, _)
SumTo(f, n) == IF n = 0 THEN 0 ELSE f[n] + SumTo(f, n - 1)

(* problem.evaluate: Schaffer's problem, f1 = sum x^2, f2 = sum (x - 2)^2 *)
ProblemEvaluate(variables) ==
    << SumTo([j \in Vars |-> (variables[j] * variables[j]) \div Scale], NumVars),
       SumTo([j \in Vars |-> ((variables[j] - 2 * Scale) * (variables[j] - 2 * Scale))
                                 \div Scale], NumVars) >>

(* problem.create_solution: a feasible point, not yet evaluated *)
CreateSolution(variables) ==
    [variables |-> variables, objectives |-> [k \in 1..NumObjectives |-> 0]]

(* copy(solution): a new solution with its own variable and objective lists *)
Copy(s) == [variables |-> s.variables, objectives |-> s.objectives]

(* a dominates b: no objective worse, one strictly better *)
Dominates(a, b) ==
    /\ \A k \in 1..NumObjectives : a.objectives[k] <= b.objectives[k]
    /\ \E k \in 1..NumObjectives : a.objectives[k] < b.objectives[k]

(* DominanceComparator.compare *)
DominanceCompare(a, b) ==
    IF Dominates(a, b) THEN -1 ELSE IF Dominates(b, a) THEN 1 ELSE 0

(* The crowding score: float("inf") is above every finite score *)
Infinity == NumObjectives * Scale + 1

Before(ms, k, a, b) ==
    \/ ms[a].objectives[k] < ms[b].objectives[k]
    \/ ms[a].objectives[k] = ms[b].objectives[k] /\ a < b

RankOf(ms, k, i) == Cardinality({a \in 1..Len(ms) : Before(ms, k, a, i)}) + 1

AtRank(ms, k, p) == CHOOSE a \in 1..Len(ms) : RankOf(ms, k, a) = p

IsBoundary(ms, i) ==
    \E k \in 1..NumObjectives : RankOf(ms, k, i) \in {1, Len(ms)}

Spread(ms, k, i) ==
    LET p  == RankOf(ms, k, i)
        lo == ms[AtRank(ms, k, 1)].objectives[k]
        hi == ms[AtRank(ms, k, Len(ms))].objectives[k]
    IN  IF hi = lo THEN 0
        ELSE ((ms[AtRank(ms, k, p + 1)].objectives[k]
               - ms[AtRank(ms, k, p - 1)].objectives[k]) * Scale) \div (hi - lo)

(* DensityEstimator: extreme members score Infinity, the others the sum over
   the objectives of the normalised distance between their two neighbours *)
CrowdingDistance(ms) ==
    [i \in 1..Len(ms) |->
        IF IsBoundary(ms, i) THEN Infinity
        ELSE SumTo([k \in 1..NumObjectives |-> Spread(ms, k, i)], NumObjectives)]

(* the first member with the lowest score *)
WorstIndex(scores) ==
    CHOOSE i \in 1..Len(scores) :
        /\ \A a \in 1..Len(scores) : scores[i] <= scores[a]
        /\ \A a \in 1..(i - 1) : scores[a] > scores[i]

RemoveAt(s, i) == [a \in 1..(Len(s) - 1) |-> IF a < i THEN s[a] ELSE s[a + 1]]

(* a score not computed since the member was inserted *)
NoScore == -1

(* BoundedArchive.compute_density_estimator *)
ComputeDensityEstimator(arch) ==
    [arch EXCEPT !.scores = CrowdingDistance(arch.members), !.fresh = TRUE]

(* the argument stored as it is, the copy left to the caller *)
DeepCopyShared(solution, ref) == [solution |-> solution, ref |-> ref]

(* BoundedArchive.add, "deep-copies solution": what is stored is a copy, an
   object of its own, whatever object the caller passed (ref is the swarm
   index of the argument when it is a particle, 0 when it is a copy) *)
DeepCopy(solution, ref) == [solution |-> Copy(solution), ref |-> 0]

(* BoundedArchive.add on the archive [members, scores, refs, fresh, reads,
   stale].  An insertion and an eviction change the membership, so the scores
   are no longer fresh; the eviction reads the scores of the current members,
   the candidate included, after computing them *)
ArchiveAdd(arch, solution, ref, capacity) ==
    LET members  == arch.members
        stored   == DeepCopy(solution, ref)
        cand     == stored.solution
        keep     == {i \in 1..Len(members) : ~Dominates(cand, members[i])}
        Kept(i)  == i \in keep
        keptIdx  == SelectSeq([i \in 1..Len(members) |-> i], Kept)
        inserted == [a \in 1..Len(keptIdx) |-> members[keptIdx[a]]] \o <<cand>>
        insScore == [a \in 1..Len(keptIdx) |-> arch.scores[keptIdx[a]]] \o <<NoScore>>
        insRefs  == [a \in 1..Len(keptIdx) |-> arch.refs[keptIdx[a]]] \o <<stored.ref>>
        grown    == [arch EXCEPT !.members = inserted, !.scores = insScore,
                                 !.refs = insRefs, !.fresh = FALSE]
    IN  IF \E i \in 1..Len(members) : Dominates(members[i], cand)
        THEN arch
        ELSE IF Len(inserted) > capacity
             THEN LET scored == ComputeDensityEstimator(grown)
                      worst  == WorstIndex(scored.scores)
                  IN  [members |-> RemoveAt(inserted, worst),
                       scores  |-> RemoveAt(scored.scores, worst),
                       refs    |-> RemoveAt(insRefs, worst),
                       fresh   |-> FALSE,
                       reads   |-> arch.reads + 1,
                       stale   |-> arch.stale \/ ~scored.fresh]
             ELSE grown

(* the adds of one operation, in the order of the loop: particles[1] first *)
RECURSIVE AddAll(_, _, _, _, _)
AddAll(arch, particles, particleRefs, n, capacity) ==
    IF n = 0 THEN arch
    ELSE ArchiveAdd(AddAll(arch, particles, particleRefs, n - 1, capacity),
                    particles[n], particleRefs[n], capacity)

-----------------------------------------------------------------------------
(* SMPSO.__init__ *)

change_velocity1 == -1
change_velocity2 == -1

delta_max == [j \in Vars |-> (upper_bound[j] - lower_bound[j]) \div 2]
delta_min == [j \in Vars |-> (-1) * delta_max[j]]

Construct(m, size, maxEvals, capacity) ==
    /\ mode = m
    /\ swarm_size = size
    /\ max_evaluations = maxEvals
    /\ leader_archive_size = capacity
    /\ evaluations = 0
    /\ speed = [i \in 1..size |-> [j \in Vars |-> 0]]
    /\ swarm = << >>
    /\ local_best = << >>
    /\ leaders = << >>
    /\ density = << >>
    /\ leader_ref = << >>
    /\ best_ref = << >>
    /\ evaluated = 0
    /\ density_fresh = TRUE
    /\ score_reads = [n |-> 0, stale |-> FALSE]
    /\ raised = "none"
    /\ result = [kind |-> "unset", value |-> 0]
    /\ call = [fn |-> "none", a |-> 0, b |-> 0, ret |-> NoneValue, sqrt |-> FALSE]
    /\ last = "__init__"
    /\ pc = IF m = "unit" THEN "unit" ELSE "create_initial_swarm"

Configured(m) ==
    \E size \in 1..MaxSwarm, maxEvals \in 1..MaxEvals, capacity \in 1..MaxArchive :
        Construct(m, size, maxEvals, capacity)

Init == Configured("driver")
RunInit == Configured("run")
FnInit == Construct("unit", 1, 1, 1)

(* where control goes after a step: an exception ends run() and is caught by
   the driver *)
After(exc, next) == IF exc # "none" /\ mode = "run" THEN "Crashed" ELSE next

(* the comparison written > *)
IsStoppingConditionReachedStrict(evals) == evals > max_evaluations

(* SMPSO.is_stopping_condition_reached *)
IsStoppingConditionReached(evals) == evals >= max_evaluations

(* the test of run()'s while loop *)
LoopHead(evals) ==
    IF IsStoppingConditionReached(evals) THEN "Terminated" ELSE "update_velocity"

-----------------------------------------------------------------------------
(* The pure helpers *)

(* SMPSO.__velocity_constriction *)
VelocityConstriction(value, variable_index) ==
    LET r0 == NoneValue
        r1 == IF value > delta_max[variable_index]
              THEN Float(delta_max[variable_index]) ELSE r0
        r2 == IF value < delta_min[variable_index]
              THEN Float(delta_min[variable_index]) ELSE r1
    IN  r2

(* numpy.sqrt on a non-negative fixed-point number, rounded down *)
RECURSIVE SqrtSearch(_, _, _)
SqrtSearch(n, lo, hi) ==
    IF hi - lo <= 1 THEN lo
    ELSE LET mid == (lo + hi) \div 2
         IN  IF mid * mid <= n THEN SqrtSearch(n, mid, hi) ELSE SqrtSearch(n, lo, mid)

Sqrt(n) == SqrtSearch(n, 0, n + 1)

(* float division, rounded toward zero *)
Divide(a, b) ==
    LET q == (IF a < 0 THEN -a ELSE a) \div (IF b < 0 THEN -b ELSE b)
    IN  IF (a < 0) = (b < 0) THEN q ELSE -q

(* the guard written rho < 4 *)
ConstrictionCoefficientStrict(c1, c2) ==
    LET rho == c1 + c2
    IN  IF rho < 4 * Scale
        THEN [result |-> Scale, sqrt |-> FALSE]
        ELSE [result |-> Divide(2 * Scale * Scale,
                                2 * Scale - rho - Sqrt(rho * rho - 4 * Scale * rho)),
              sqrt |-> TRUE]

(* the square root added instead of subtracted *)
ConstrictionCoefficientPlus(c1, c2) ==
    LET rho == c1 + c2
    IN  IF rho <= 4 * Scale
        THEN [result |-> Scale, sqrt |-> FALSE]
        ELSE [result |-> Divide(2 * Scale * Scale,
                                2 * Scale - rho + Sqrt(rho * rho - 4 * Scale * rho)),
              sqrt |-> TRUE]

(* SMPSO.__constriction_coefficient: the result and whether numpy.sqrt ran *)
ConstrictionCoefficient(c1, c2) ==
    LET rho == c1 + c2
    IN  IF rho <= 4 * Scale
        THEN [result |-> Scale, sqrt |-> FALSE]
        ELSE [result |-> Divide(2 * Scale * Scale,
                                2 * Scale - rho - Sqrt(rho * rho - 4 * Scale * rho)),
              sqrt |-> TRUE]

(* SMPSO.__select_global_best: Random.sample is called on the class, so the
   archive list is bound to self, 2 to population, and k is missing *)
SelectGlobalBest == [raised |-> "TypeError", value |-> NoneValue]

VelocityInputs == {(Scale \div 2) * n : n \in (-(2 * MaxX + 2))..(2 * MaxX + 2)}
CoefficientInputs == {5 * n : n \in 20..50}

CallVelocityConstriction ==
    /\ pc = "unit"
    /\ \E value \in VelocityInputs, j \in Vars :
          call' = [fn |-> "velocity_constriction", a |-> value, b |-> j,
                   ret |-> VelocityConstriction(value, j), sqrt |-> FALSE]
    /\ last' = "velocity_constriction"
    /\ pc' = "returned"
    /\ UNCHANGED <<config, refs, scoring, evaluated, raised, result, swarm,
                   local_best, speed, leaders, density, evaluations>>

CallConstrictionCoefficient ==
    /\ pc = "unit"
    /\ \E c1 \in CoefficientInputs, c2 \in CoefficientInputs :
          LET r == ConstrictionCoefficient(c1, c2)
          IN  call' = [fn |-> "constriction_coefficient", a |-> c1, b |-> c2,
                       ret |-> Float(r.result), sqrt |-> r.sqrt]
    /\ last' = "constriction_coefficient"
    /\ pc' = "returned"
    /\ UNCHANGED <<config, refs, scoring, evaluated, raised, result, swarm,
                   local_best, speed, leaders, density, evaluations>>

-----------------------------------------------------------------------------
(* The steps of the run *)

(* A particle mutated in place is seen through every reference to it: the
   objects of a list that are swarm particles take the particles' new state *)
InPlace(objects, objectRefs, particles) ==
    [m \in 1..Len(objects) |->
        IF objectRefs[m] = 0 THEN objects[m] ELSE particles[objectRefs[m]]]

NoRefs(objects) == [m \in 1..Len(objects) |-> 0]

(* the particles passed as they are: argument i is particle i *)
OwnRefs(particles) == [i \in 1..Len(particles) |-> i]

(* self.leaders as an operation finds it *)
Archive ==
    [members |-> leaders, scores |-> density, refs |-> leader_ref,
     fresh |-> density_fresh, reads |-> 0, stale |-> score_reads.stale]

(* self.leaders as an operation leaves it *)
ArchiveBecomes(arch) ==
    /\ leaders' = arch.members
    /\ density' = arch.scores
    /\ leader_ref' = arch.refs
    /\ density_fresh' = arch.fresh
    /\ score_reads' = [n |-> arch.reads, stale |-> arch.stale]

(* SMPSO.create_initial_swarm *)
CreateInitialSwarm ==
    /\ pc = "create_initial_swarm"
    /\ \E positions \in [1..swarm_size -> Positions] :
          swarm' = [i \in 1..swarm_size |-> CreateSolution(positions[i])]
    /\ raised' = "none"
    /\ last' = "create_initial_swarm"
    /\ pc' = "evaluate_initial_swarm"
    /\ UNCHANGED <<config, refs, scoring, evaluated, result, call,
                   local_best, speed, leaders, density, evaluations>>

(* SMPSO.evaluate_swarm: the evaluator sets the objectives of every particle *)
EvaluateSwarm ==
    /\ pc \in {"evaluate_initial_swarm", "evaluate_swarm"}
    /\ swarm' = [i \in 1..Len(swarm) |->
                    [swarm[i] EXCEPT !.objectives = ProblemEvaluate(swarm[i].variables)]]
    /\ raised' = "none"
    /\ last' = "evaluate_swarm"
    /\ leaders' = InPlace(leaders, leader_ref, swarm')
    /\ local_best' = InPlace(local_best, best_ref, swarm')
    /\ evaluated' = evaluated + Len(swarm)
    /\ pc' = IF pc = "evaluate_initial_swarm" THEN "initialize_global_best"
             ELSE "update_particle_best"
    /\ UNCHANGED <<config, refs, scoring, result, call, speed, density,
                   evaluations>>

(* the particles appended to leaders.solution_list, add bypassed *)
InitializeGlobalBestAppend ==
    /\ pc = "initialize_global_best"
    /\ leaders' = leaders \o swarm
    /\ density' = density \o [i \in 1..Len(swarm) |-> NoScore]
    /\ leader_ref' = leader_ref \o OwnRefs(swarm)
    /\ density_fresh' = FALSE
    /\ score_reads' = [n |-> 0, stale |-> score_reads.stale]
    /\ raised' = "none"
    /\ last' = "initialize_global_best"
    /\ pc' = "initialize_particle_best"
    /\ UNCHANGED <<config, best_ref, evaluated, result, call, swarm,
                   local_best, speed, evaluations>>

(* the loop runs over the (empty) archive instead of the swarm *)
InitializeGlobalBestNoSeed ==
    /\ pc = "initialize_global_best"
    /\ ArchiveBecomes(AddAll(Archive, leaders, leader_ref, Len(leaders),
                             leader_archive_size))
    /\ raised' = "none"
    /\ last' = "initialize_global_best"
    /\ pc' = "initialize_particle_best"
    /\ UNCHANGED <<config, best_ref, evaluated, result, call, swarm,
                   local_best, speed, evaluations>>

(* SMPSO.initialize_global_best: leaders.add(particle), the particle itself *)
InitializeGlobalBest ==
    /\ pc = "initialize_global_best"
    /\ ArchiveBecomes(AddAll(Archive, swarm, OwnRefs(swarm), Len(swarm),
                             leader_archive_size))
    /\ raised' = "none"
    /\ last' = "initialize_global_best"
    /\ pc' = "initialize_particle_best"
    /\ UNCHANGED <<config, best_ref, evaluated, result, call, swarm,
                   local_best, speed, evaluations>>

(* local_best bound to the particle itself, copy omitted *)
InitializeParticleBestShare ==
    /\ pc = "initialize_particle_best"
    /\ local_best' = swarm
    /\ best_ref' = [i \in 1..Len(swarm) |-> i]
    /\ raised' = "none"
    /\ last' = "initialize_particle_best"
    /\ pc' = "initialize_velocity"
    /\ UNCHANGED <<config, leader_ref, scoring, evaluated, result, call,
                   swarm, speed, leaders, density, evaluations>>

(* SMPSO.initialize_particle_best *)
InitializeParticleBest ==
    /\ pc = "initialize_particle_best"
    /\ local_best' = [i \in 1..Len(swarm) |-> Copy(swarm[i])]
    /\ best_ref' = NoRefs(swarm)
    /\ raised' = "none"
    /\ last' = "initialize_particle_best"
    /\ pc' = "initialize_velocity"
    /\ UNCHANGED <<config, leader_ref, scoring, evaluated, result, call,
                   swarm, speed, leaders, density, evaluations>>

(* SMPSO.initialize_velocity *)
InitializeVelocity ==
    /\ pc = "initialize_velocity"
    /\ raised' = "none"
    /\ last' = "initialize_velocity"
    /\ pc' = "init_progress"
    /\ UNCHANGED <<config, refs, scoring, evaluated, result, call, swarm,
                   local_best, speed, leaders, density, evaluations>>

(* SMPSO.init_progress *)
InitProgress ==
    /\ pc = "init_progress"
    /\ evaluations' = swarm_size
    /\ density' = ComputeDensityEstimator(Archive).scores
    /\ density_fresh' = ComputeDensityEstimator(Archive).fresh
    /\ raised' = "none"
    /\ last' = "init_progress"
    /\ pc' = LoopHead(swarm_size)
    /\ UNCHANGED <<config, refs, score_reads, evaluated, result, call, swarm,
                   local_best, speed, leaders>>

(* SMPSO.update_velocity: the first particle's __select_global_best raises
   before any velocity is computed *)
UpdateVelocity ==
    /\ pc = "update_velocity"
    /\ raised' = IF swarm_size = 0 THEN "none" ELSE SelectGlobalBest.raised
    /\ last' = "update_velocity"
    /\ pc' = After(raised', "update_position")
    /\ UNCHANGED <<config, refs, scoring, evaluated, result, call, swarm,
                   local_best, speed, leaders, density, evaluations>>

(* SMPSO.update_position: "for j in particle.variables" binds j to the float
   values of the variables, and particle.variables[j] subscripts a list with
   a float, before anything is written *)
UpdatePosition ==
    /\ pc = "update_position"
    /\ raised' = IF swarm_size = 0 \/ NumVars = 0 THEN "none" ELSE "TypeError"
    /\ last' = "update_position"
    /\ pc' = After(raised', "perturbation")
    /\ UNCHANGED <<config, refs, scoring, evaluated, result, call, swarm,
                   local_best, speed, leaders, density, evaluations>>

(* SMPSO.perturbation: the mutation operator moves each particle to some
   point of the box *)
Perturbation ==
    /\ pc = "perturbation"
    /\ \E positions \in [1..swarm_size -> Positions] :
          swarm' = [i \in 1..swarm_size |->
                       [swarm[i] EXCEPT !.variables = positions[i]]]
    /\ raised' = "none"
    /\ last' = "perturbation"
    /\ leaders' = InPlace(leaders, leader_ref, swarm')
    /\ local_best' = InPlace(local_best, best_ref, swarm')
    /\ pc' = "evaluate_swarm"
    /\ UNCHANGED <<config, refs, scoring, evaluated, result, call, speed,
                   density, evaluations>>

(* SMPSO.update_particle_best: self.swarm[i].attribute does not exist (the
   map is called attributes), so the first comparison raises *)
UpdateParticleBest ==
    /\ pc = "update_particle_best"
    /\ raised' = IF swarm_size = 0 THEN "none" ELSE "AttributeError"
    /\ last' = "update_particle_best"
    /\ pc' = After(raised', "update_global_best")
    /\ UNCHANGED <<config, refs, scoring, evaluated, result, call, swarm,
                   local_best, speed, leaders, density, evaluations>>

(* the copies appended to leaders.solution_list, add bypassed *)
UpdateGlobalBestAppend ==
    /\ pc = "update_global_best"
    /\ leaders' = leaders \o [i \in 1..Len(swarm) |-> Copy(swarm[i])]
    /\ density' = density \o [i \in 1..Len(swarm) |-> NoScore]
    /\ leader_ref' = leader_ref \o NoRefs(swarm)
    /\ density_fresh' = FALSE
    /\ score_reads' = [n |-> 0, stale |-> score_reads.stale]
    /\ raised' = "none"
    /\ last' = "update_global_best"
    /\ pc' = "update_progress"
    /\ UNCHANGED <<config, best_ref, evaluated, result, call, swarm,
                   local_best, speed, evaluations>>

(* SMPSO.update_global_best: leaders.add(copy(particle)) *)
UpdateGlobalBest ==
    /\ pc = "update_global_best"
    /\ LET copies == [i \in 1..Len(swarm) |-> Copy(swarm[i])]
       IN  ArchiveBecomes(AddAll(Archive, copies, NoRefs(copies), Len(copies),
                                 leader_archive_size))
    /\ raised' = "none"
    /\ last' = "update_global_best"
    /\ pc' = "update_progress"
    /\ UNCHANGED <<config, best_ref, evaluated, result, call, swarm,
                   local_best, speed, evaluations>>

(* compute_density_estimator left out of update_progress *)
UpdateProgressNoDensity ==
    /\ pc = "update_progress"
    /\ evaluations' = evaluations + swarm_size
    /\ density' = density
    /\ density_fresh' = density_fresh
    /\ raised' = "none"
    /\ last' = "update_progress"
    /\ pc' = LoopHead(evaluations + swarm_size)
    /\ UNCHANGED <<config, refs, score_reads, evaluated, result, call, swarm,
                   local_best, speed, leaders>>

(* the counter advanced by one instead of swarm_size *)
UpdateProgressByOne ==
    /\ pc = "update_progress"
    /\ evaluations' = evaluations + 1
    /\ density' = ComputeDensityEstimator(Archive).scores
    /\ density_fresh' = ComputeDensityEstimator(Archive).fresh
    /\ raised' = "none"
    /\ last' = "update_progress"
    /\ pc' = LoopHead(evaluations + 1)
    /\ UNCHANGED <<config, refs, score_reads, evaluated, result, call, swarm,
                   local_best, speed, leaders>>

(* SMPSO.update_progress *)
UpdateProgress ==
    /\ pc = "update_progress"
    /\ evaluations' = evaluations + swarm_size
    /\ density' = ComputeDensityEstimator(Archive).scores
    /\ density_fresh' = ComputeDensityEstimator(Archive).fresh
    /\ raised' = "none"
    /\ last' = "update_progress"
    /\ pc' = LoopHead(evaluations + swarm_size)
    /\ UNCHANGED <<config, refs, score_reads, evaluated, result, call, swarm,
                   local_best, speed, leaders>>

(* SMPSO.get_result: the expression statement has no return *)
GetResult ==
    /\ pc = "Terminated"
    /\ result' = NoneValue
    /\ raised' = "none"
    /\ last' = "get_result"
    /\ pc' = "done"
    /\ UNCHANGED <<config, refs, scoring, evaluated, call, swarm, local_best,
                   speed, leaders, density, evaluations>>

Initialize ==
    \/ CreateInitialSwarm
    \/ EvaluateSwarm
    \/ InitializeGlobalBest
    \/ InitializeParticleBest
    \/ InitializeVelocity
    \/ InitProgress

Next ==
    \/ Initialize
    \/ UpdateVelocity
    \/ UpdatePosition
    \/ Perturbation
    \/ UpdateParticleBest
    \/ UpdateGlobalBest
    \/ UpdateProgress
    \/ GetResult

RunNext ==
    \/ Initialize
    \/ UpdateVelocity
    \/ GetResult

FnNext ==
    \/ CallVelocityConstriction
    \/ CallConstrictionCoefficient

Spec == Init /\ [][Next]_vars
RunSpec == RunInit /\ [][RunNext]_vars
FnSpec == FnInit /\ [][FnNext]_vars

-----------------------------------------------------------------------------
(* Properties *)

InBounds(s) ==
    \A j \in Vars : lower_bound[j] <= s.variables[j] /\ s.variables[j] <= upper_bound[j]

(* C1: after every execution of update_position every decision variable of
   every particle lies in [lower_bound[j], upper_bound[j]]: update_position
   completes and leaves the swarm in the box. *)
C1_PositionUpdateInBounds ==
    last = "update_position" =>
        /\ raised = "none"
        /\ \A i \in 1..Len(swarm) : InBounds(swarm[i])

Clamp(value, j) ==
    IF value > delta_max[j] THEN delta_max[j]
    ELSE IF value < delta_min[j] THEN delta_min[j] ELSE value

(* C2: the velocity clamp returns delta_max[j] above delta_max[j], delta_min[j]
   below delta_min[j] and the value itself otherwise, a number of
   [delta_min[j], delta_max[j]] in every case. *)
C2_ClampReturnsNumber ==
    call.fn = "velocity_constriction" =>
        /\ call.ret = Float(Clamp(call.a, call.b))
        /\ delta_min[call.b] <= call.ret.value
        /\ call.ret.value <= delta_max[call.b]

(* C3: after any sequence of adds (seeding, then every generation) no member
   of the Leaders archive dominates another member. *)
C3_ArchiveNonDominated ==
    \A a \in 1..Len(leaders), b \in 1..Len(leaders) : ~Dominates(leaders[a], leaders[b])

(* a generation's adds on a full archive: one seeded particle and one current
   particle are dominated by a member, so a removal and a rejection happened *)
C3_Witness ==
    /\ last = "update_global_best"
    /\ Len(leaders) >= 2
    /\ \E i \in 1..Len(local_best), m \in 1..Len(leaders) :
          Dominates(leaders[m], local_best[i])
    /\ \E i \in 1..Len(swarm), m \in 1..Len(leaders) : Dominates(leaders[m], swarm[i])

(* C4: after every add, eviction included, the Leaders archive holds at most
   leader_archive_size members, during seeding and in every generation, also
   when the swarm is larger than the archive. *)
C4_ArchiveWithinCapacity == Len(leaders) <= leader_archive_size

(* a swarm larger than the archive whose particles do not dominate one
   another has been added to a full archive: a member was evicted *)
C4_Witness ==
    /\ last = "update_global_best"
    /\ swarm_size > leader_archive_size
    /\ Len(leaders) = leader_archive_size
    /\ \A a \in 1..Len(swarm), b \in 1..Len(swarm) :
          a # b => /\ ~Dominates(swarm[a], swarm[b])
                   /\ swarm[a].objectives # swarm[b].objectives
    /\ \A a \in 1..Len(swarm), m \in 1..Len(leaders) : ~Dominates(leaders[m], swarm[a])

(* C5: an initialized run reaches Terminated: it stops nowhere else; it is
   Terminated exactly when evaluations >= max_evaluations, and no step of a
   generation is taken once that holds. *)
C5_RunReachesTerminated ==
    /\ pc \in {"Terminated", "done"} \/ ENABLED RunNext
    /\ pc \in {"Terminated", "done"} => IsStoppingConditionReached(evaluations)
    /\ pc = "update_velocity" => ~IsStoppingConditionReached(evaluations)

(* C6: get_result returns the current members of the Leaders archive. *)
C6_ResultIsArchive == last = "get_result" => result = List(leaders)

(* C7: update_particle_best completes without error and, for every particle
   i, replaces local_best[i] by a copy of swarm[i] when the comparison of
   swarm[i] with local_best[i] is not +1, and leaves it otherwise. *)
C7_ParticleBestRule ==
    [][UpdateParticleBest =>
          /\ raised' = "none"
          /\ \A i \in 1..Len(swarm) :
                local_best'[i] = IF DominanceCompare(swarm[i], local_best[i]) # 1
                                 THEN Copy(swarm[i]) ELSE local_best[i]]_vars

Seeded ==
    pc \notin {"unit", "returned", "create_initial_swarm", "evaluate_initial_swarm",
               "initialize_global_best"}

(* C8: in every state after the seeding of the archive, up to and including
   the end of the run, the Leaders archive has at least one member. *)
C8_ArchiveNonEmpty == Seeded => Len(leaders) >= 1

(* an archive of capacity 1 after a generation in which a particle that no
   member dominates was added: the add replaced or evicted, and one member is left *)
C8_Witness ==
    /\ last = "update_global_best"
    /\ leader_archive_size = 1
    /\ Len(leaders) = 1
    /\ \E i \in 1..Len(swarm) : leaders[1] = Copy(swarm[i])
    /\ \A i \in 1..Len(local_best) : leaders[1] # local_best[i]

(* C9: with c1 + c2 <= 4 the constriction coefficient is exactly 1.0 and the
   square root is not evaluated. *)
C9_OneUpToFour ==
    (call.fn = "constriction_coefficient" /\ call.a + call.b <= 4 * Scale) =>
        /\ call.ret = Float(Scale)
        /\ ~call.sqrt

(* the boundary rho = 4 *)
C9_Witness ==
    /\ call.fn = "constriction_coefficient"
    /\ call.a + call.b = 4 * Scale
    /\ call.ret = Float(Scale)

RhoBoundary == 4 * Scale + Scale \div 10

(* C10 as stated: with rho = 4.1 the constriction formula returns a value
   greater than 1. *)
C10_AboveOne ==
    (call.fn = "constriction_coefficient" /\ call.a + call.b = RhoBoundary) =>
        /\ call.ret.kind = "float"
        /\ call.ret.value > Scale

(* C10 as amended: with rho = 4.1 the square root is evaluated and the formula
   returns a negative value of magnitude below 1. *)
C10_NegativeBelowOne ==
    (call.fn = "constriction_coefficient" /\ call.a + call.b = RhoBoundary) =>
        /\ call.sqrt
        /\ call.ret.kind = "float"
        /\ -Scale < call.ret.value
        /\ call.ret.value < 0

C10_Witness ==
    /\ call.fn = "constriction_coefficient"
    /\ call.a + call.b = RhoBoundary
    /\ call.sqrt

(* C11: with exactly one member in the Leaders archive the selection of the
   global best is not an error: update_velocity completes. *)
C11_SingleLeaderSelection ==
    (last = "update_velocity" /\ Len(leaders) = 1) => raised = "none"

(* C12: every solution added to the archive, by initialize_global_best as by
   update_global_best, is stored as an object of its own: no member is a swarm
   particle, so no update_position or perturbation of the swarm changes the
   variables or objectives of a member, and a seeded member keeps the state
   its particle had when it was added. *)
C12_ArchiveIndependentOfSwarm ==
    /\ [](\A m \in 1..Len(leader_ref) : leader_ref[m] = 0)
    /\ [][(UpdatePosition \/ Perturbation) => leaders' = leaders]_vars
    /\ [][leaders' = leaders \/ InitializeGlobalBest \/ UpdateGlobalBest]_vars

(* initialize_global_best passed particle i itself to add, and the
   perturbation has since moved that particle away from the member stored
   for it *)
C12_Witness ==
    /\ last = "perturbation"
    /\ \E i \in 1..Len(swarm), m \in 1..Len(leaders) :
          /\ leaders[m] = local_best[i]
          /\ swarm[i].variables # leaders[m].variables

(* C13: update_position completes and, for every particle i and variable j,
   moves x[j] by speed[i][j]; below lower_bound[j] the position becomes
   lower_bound[j] and speed[i][j] is multiplied by change_velocity1, above
   upper_bound[j] it becomes upper_bound[j] and speed[i][j] is multiplied by
   change_velocity2, and inside the bounds speed[i][j] is left as it is. *)
C13_PositionUpdateRule ==
    [][UpdatePosition =>
          /\ raised' = "none"
          /\ \A i \in 1..Len(swarm), j \in Vars :
                LET moved == swarm[i].variables[j] + speed[i][j]
                IN  IF moved < lower_bound[j]
                    THEN /\ swarm'[i].variables[j] = lower_bound[j]
                         /\ speed'[i][j] = speed[i][j] * change_velocity1
                    ELSE IF moved > upper_bound[j]
                    THEN /\ swarm'[i].variables[j] = upper_bound[j]
                         /\ speed'[i][j] = speed[i][j] * change_velocity2
                    ELSE /\ swarm'[i].variables[j] = moved
                         /\ speed'[i][j] = speed[i][j]]_vars

(* C14: density scores are never read stale.  Every eviction inside
   Leaders.add reads scores computed after the last change of membership, the
   insertion of the candidate and the adds before it in the same loop
   included; and after init_progress and after every update_progress, so
   whenever update_velocity is about to select a global best,
   compute_density_estimator has run since the last change of membership and
   every member's score is the one the density estimator gives for the
   current members. *)
C14_DensityNeverReadStale ==
    /\ ~score_reads.stale
    /\ (last \in {"init_progress", "update_progress"} \/ pc = "update_velocity") =>
          /\ density_fresh
          /\ Len(density) = Len(leaders)
          /\ density = CrowdingDistance(leaders)

(* every add of a generation of a swarm of several particles evicted a
   member, so the second eviction read the scores after the first add had
   changed the membership; update_progress has then computed the scores of
   the members that are left *)
C14_Witness ==
    /\ last = "update_progress"
    /\ swarm_size >= 2
    /\ score_reads.n = swarm_size
    /\ density_fresh
    /\ \E m \in 1..Len(leaders) : \A i \in 1..Len(local_best) : leaders[m] # local_best[i]

(* C15: the evaluation counter is swarm_size after initialization, grows by
   exactly swarm_size in each generation and never decreases, and after
   init_progress and after every update_progress it equals the number of
   objective evaluations performed, swarm_size for each call of
   evaluate_swarm. *)
C15_EvaluationCounter ==
    /\ [](last = "init_progress" => evaluations = swarm_size)
    /\ [](last \in {"init_progress", "update_progress"} => evaluations = evaluated)
    /\ [][evaluations' >= evaluations]_vars
    /\ [][UpdateProgress => evaluations' = evaluations + swarm_size]_vars

(* a generation of a swarm of several particles has been counted *)
C15_Witness ==
    /\ last = "update_progress"
    /\ swarm_size >= 2
    /\ evaluations = 2 * swarm_size
    /\ evaluated = 2 * swarm_size

(* C16: with two or more members in the archive __select_global_best draws
   two distinct members and returns a copy of the better one: the selection
   returns a solution and update_velocity completes. *)
C16_TournamentReturnsMember ==
    (last = "update_velocity" /\ Len(leaders) >= 2) =>
        /\ raised = "none"
        /\ SelectGlobalBest.raised = "none"
        /\ SelectGlobalBest.value # NoneValue

(* C17: the evaluation counter is always a multiple of swarm_size; a run that
   terminates with max_evaluations >= swarm_size ends with max_evaluations <=
   evaluations < max_evaluations + swarm_size, and one with max_evaluations <=
   swarm_size ends with evaluations = swarm_size and no generation executed. *)
C17_CounterOvershoot ==
    /\ evaluations % swarm_size = 0
    /\ (pc \in {"Terminated", "done"} /\ max_evaluations >= swarm_size) =>
          /\ max_evaluations <= evaluations
          /\ evaluations < max_evaluations + swarm_size
    /\ (pc \in {"Terminated", "done"} /\ max_evaluations <= swarm_size) =>
          /\ evaluations = swarm_size
          /\ evaluated = swarm_size

(* a terminated run whose last generation carried the counter past
   max_evaluations *)
C17_Witness ==
    /\ pc = "Terminated"
    /\ max_evaluations > swarm_size
    /\ evaluations > max_evaluations

(* C18: a personal best is an object of its own, not the particle, and is
   changed only by initialize_particle_best and update_particle_best:
   update_velocity, update_position, perturbation and update_global_best
   leave every local_best[i] as it is, and update_velocity changes nothing
   but the velocity matrix. *)
C18_PersonalBestFrame ==
    /\ [](\A i \in 1..Len(best_ref) : best_ref[i] = 0)
    /\ [][local_best' = local_best \/ InitializeParticleBest \/ UpdateParticleBest]_vars
    /\ [][(UpdateVelocity \/ UpdatePosition \/ Perturbation \/ UpdateGlobalBest) =>
             local_best' = local_best]_vars
    /\ [][UpdateVelocity =>
             UNCHANGED <<swarm, local_best, leaders, density, evaluations>>]_vars

(* the perturbation has moved a particle away from its personal best *)
C18_Witness ==
    /\ last = "perturbation"
    /\ \E i \in 1..Len(swarm) : swarm[i].variables # local_best[i].variables

=============================================================================
